---------------------------- MODULE Spec2Model ----------------------------
(***************************************************************************)
(* Model of the compaction scheduler of package bgs (src/bgs/compact.go):  *)
(* the deduplicating queue, the status tracker, the worker loop            *)
(* Compactor.Run / Compactor.CompactNext, EnqueueRepo, and the batch       *)
(* driver BGS.runRepoCompaction.                                           *)
(*                                                                         *)
(* Go semantics that the model keeps:                                      *)
(*  - every queue method runs under q.lk, so it is one atomic step;        *)
(*  - SetState / GetState run under c.stateLk, so each is one atomic step; *)
(*  - a write through a nil pointer panics, and a panic in any goroutine   *)
(*    ends the whole process (variable crashAt);                           *)
(*  - a receive from a nil channel never becomes ready, so a select with   *)
(*    a default branch always takes the default; close of a nil channel    *)
(*    panics.                                                              *)
(*                                                                         *)
(* NewCompactor sets only the field q and is the only constructor in the   *)
(* source: state and exit stay nil, so on the Compactor the program builds *)
(* CompactNext stops at its first SetState and GetState at its first read. *)
(* A second initial state, LiteralCompactor, has state and exit allocated  *)
(* the way spec.md describes the status tracker and the exit signal; no    *)
(* code in the source builds it.  It is there for the steps of CompactNext *)
(* and GetState behind those panics to be exercised.  The variable ctor    *)
(* tells the two apart, and whatever is held against the code is stated    *)
(* for ctor = "NewCompactor".                                              *)
(***************************************************************************)
EXTENDS Integers, Sequences, FiniteSets, TLC

\* ------------------------------------------------------------------ bounds
MaxUid == 3
MaxTargets == 3
MaxLim == 2

Uids == 1..MaxUid
Nil == "nil"
\* a Go pointer: the nil pointer, or a pointer to the value x
NilPtr == <<>>
Ptr(x) == <<x>>
Deref(p) == p[1]
Dids == {"did:a", "did:b"}
StatsVals == {"st1", "st2"}

VARIABLES
    \* queue (compact.go:20-24)
    q, members,
    \* history of the direct queue calls
    call, firstSeen, popped, pure,
    \* Compactor (compact.go:98-103)
    ctor, state, exit,
    \* the goroutine running Compactor.Run
    pc, item, user, st, ret, err,
    \* history of the worker
    stages, collab, observed, lastLog, crashAt, signalled,
    \* BGS.runRepoCompaction
    bpc, bargs, repos, bi, results, ctxDone, bret,
    \* history of the batch driver
    bcalls, bok, bobserved, bcancelAt,
    \* Compactor.EnqueueAllRepos and its history
    epc, eargs, erepos, ei, eerr, ecalls, equiet,
    \* c.stateLk, a caller inside SetState, a caller inside GetState and the
    \* copy it got, the CompactionStats objects, and the history of the reads
    stateLk, wpc, wargs, rpc, rtmp, snap, heap, got, readDeep, committed

qvars == <<q, members>>
qhist == <<call, firstSeen, popped, pure>>
cvars == <<ctor, state, exit>>
wvars == <<pc, item, user, st, ret, err>>
whist == <<stages, collab, observed, lastLog, crashAt, signalled>>
bvars == <<bpc, bargs, repos, bi, results, ctxDone, bret>>
bhist == <<bcalls, bok, bobserved, bcancelAt>>
evars == <<epc, eargs, erepos, ei, eerr, ecalls>>
svars == <<stateLk, wpc, wargs, rpc, rtmp, snap, heap, got, readDeep,
           committed>>
vars == <<qvars, qhist, cvars, wvars, whist, bvars, bhist, evars, equiet,
          svars>>

\* ------------------------------------------------------------------ queue
queueItem(uid, fast) == [uid |-> uid, fast |-> fast]

UidsOf(qq) == [i \in 1..Len(qq) |-> qq[i].uid]
Range(s) == {s[i] : i \in 1..Len(s)}

\* the index the loop of queue.Remove stops at (0: no entry has the uid)
IndexOfUid(qq, uid) ==
    IF \E i \in 1..Len(qq) : qq[i].uid = uid
    THEN CHOOSE i \in 1..Len(qq) :
            /\ qq[i].uid = uid
            /\ \A j \in 1..(i - 1) : qq[j].uid # uid
    ELSE 0

\* mutant of queue.Append: a duplicate overwrites the fast flag
QueueAppendOverwrite(qq, mm, uid, fast) ==
    IF uid \in mm
    THEN [q |-> [i \in 1..Len(qq) |->
                    IF qq[i].uid = uid THEN queueItem(uid, fast) ELSE qq[i]],
          members |-> mm]
    ELSE [q |-> Append(qq, queueItem(uid, fast)), members |-> mm \cup {uid}]

\* queue.Append: no-op on a member, else insert at the tail
QueueAppend(qq, mm, uid, fast) ==
    IF uid \in mm
    THEN [q |-> qq, members |-> mm]
    ELSE [q |-> Append(qq, queueItem(uid, fast)), members |-> mm \cup {uid}]

\* mutant of queue.Prepend: the new entry goes to the tail
QueuePrependAtTail(qq, mm, uid, fast) ==
    IF uid \in mm
    THEN [q |-> qq, members |-> mm]
    ELSE [q |-> Append(qq, queueItem(uid, fast)), members |-> mm \cup {uid}]

\* queue.Prepend: no-op on a member, else insert at the head
QueuePrepend(qq, mm, uid, fast) ==
    IF uid \in mm
    THEN [q |-> qq, members |-> mm]
    ELSE [q |-> <<queueItem(uid, fast)>> \o qq, members |-> mm \cup {uid}]

QueueHas(mm, uid) == uid \in mm

\* mutant of queue.Remove: the membership is not cleared
QueueRemoveKeepMember(qq, mm, uid) ==
    IF uid \notin mm
    THEN [q |-> qq, members |-> mm]
    ELSE LET i == IndexOfUid(qq, uid) IN
         [q |-> IF i = 0 THEN qq
                ELSE SubSeq(qq, 1, i - 1) \o SubSeq(qq, i + 1, Len(qq)),
          members |-> mm]

\* queue.Remove: drops the first entry with the uid and its membership
QueueRemove(qq, mm, uid) ==
    IF uid \notin mm
    THEN [q |-> qq, members |-> mm]
    ELSE LET i == IndexOfUid(qq, uid) IN
         [q |-> IF i = 0 THEN qq
                ELSE SubSeq(qq, 1, i - 1) \o SubSeq(qq, i + 1, Len(qq)),
          members |-> mm \ {uid}]

\* mutants of queue.Pop: membership kept, the tail popped, no empty check
QueuePopKeepMember(qq, mm) ==
    IF Len(qq) = 0
    THEN [found |-> FALSE, item |-> NilPtr, q |-> qq, members |-> mm]
    ELSE [found |-> TRUE, item |-> Ptr(qq[1]), q |-> Tail(qq), members |-> mm]

QueuePopLast(qq, mm) ==
    IF Len(qq) = 0
    THEN [found |-> FALSE, item |-> NilPtr, q |-> qq, members |-> mm]
    ELSE [found |-> TRUE, item |-> Ptr(qq[Len(qq)]),
          q |-> SubSeq(qq, 1, Len(qq) - 1),
          members |-> mm \ {qq[Len(qq)].uid}]

QueuePopZeroOnEmpty(qq, mm) ==
    IF Len(qq) = 0
    THEN [found |-> TRUE, item |-> Ptr(queueItem(0, FALSE)), q |-> qq,
          members |-> mm]
    ELSE [found |-> TRUE, item |-> Ptr(qq[1]), q |-> Tail(qq),
          members |-> mm \ {qq[1].uid}]

\* queue.Pop: the head and found=true, or found=false on the empty queue
QueuePop(qq, mm) ==
    IF Len(qq) = 0
    THEN [found |-> FALSE, item |-> NilPtr, q |-> qq, members |-> mm]
    ELSE [found |-> TRUE, item |-> Ptr(qq[1]), q |-> Tail(qq),
          members |-> mm \ {qq[1].uid}]


\* ------------------------------------------------- construction (Init)
NoCall == [op |-> "none", uid |-> 0, fast |-> FALSE, had |-> FALSE,
           qBefore |-> <<>>, mBefore |-> {}, found |-> FALSE, item |-> NilPtr]

\* queue{members: make(map[models.Uid]struct{})}: q.q is the nil slice
QueueInit ==
    /\ q = <<>>
    /\ members = {}
    /\ call = NoCall
    /\ firstSeen = <<>>
    /\ popped = <<>>
    /\ pure = TRUE

\* the zero value of CompactorState behind a non-nil pointer
ZeroState == [latestUID |-> 0, latestDID |-> "", status |-> "", stats |-> Nil]

\* NewCompactor: state is the nil pointer and exit the nil channel
NewCompactor ==
    /\ ctor = "NewCompactor"
    /\ state = NilPtr
    /\ exit = "nil"

\* a Compactor as spec.md describes it, with a status tracker to write to and
\* an exit signal to close; written out in Go it would be
\* &Compactor{q: ..., state: &CompactorState{}, exit: make(chan struct{})},
\* which no code in the source builds
LiteralCompactor ==
    /\ ctor = "literal"
    /\ state = Ptr(ZeroState)
    /\ exit = "open"

WorkerInit ==
    /\ pc = "select"
    /\ item = NilPtr
    /\ user = Nil
    /\ st = Nil
    /\ ret = NilPtr
    /\ err = Nil
    /\ stages = <<>>
    /\ collab = <<>>
    /\ observed = FALSE
    /\ lastLog = NilPtr
    /\ crashAt = "none"
    /\ signalled = FALSE

\* runRepoCompaction has not returned
NoReturn == [stats |-> NilPtr, err |-> Nil]

BatchInit ==
    /\ bpc = "idle"
    /\ bargs = NilPtr
    /\ repos = <<>>
    /\ bi = 0
    /\ results = <<>>
    /\ ctxDone = FALSE
    /\ bret = NoReturn
    /\ bcalls = <<>>
    /\ bok = {}
    /\ bobserved = 0
    /\ bcancelAt = -1

\* EnqueueAllRepos has not been called
EnqueueInit ==
    /\ epc = "idle"
    /\ eargs = NilPtr
    /\ erepos = <<>>
    /\ ei = 0
    /\ eerr = Nil
    /\ ecalls = <<>>
    /\ equiet = FALSE

\* every CompactionStats object as CompactUserShards returned it
FreshHeap == [s \in StatsVals |-> "fresh"]

\* the zero sync.RWMutex; nobody is inside SetState or GetState
TrackerInit ==
    /\ stateLk = "free"
    /\ wpc = "idle"
    /\ wargs = NilPtr
    /\ rpc = "idle"
    /\ rtmp = NilPtr
    /\ snap = NilPtr
    /\ heap = FreshHeap
    /\ got = NilPtr
    /\ readDeep = NilPtr
    /\ committed = ZeroState

\* ---------------------------------------------- direct calls of the queue
Alive == crashAt = "none"

NotPure ==
    /\ pure' = FALSE
    /\ firstSeen' = <<>>
    /\ popped' = <<>>

QAppend(uid, fast) ==
    /\ Alive
    /\ UNCHANGED <<evars, equiet, svars>>
    /\ LET r == QueueAppend(q, members, uid, fast) IN
        /\ q' = r.q
        /\ members' = r.members
    /\ call' = [NoCall EXCEPT !.op = "Append", !.uid = uid, !.fast = fast,
                              !.had = QueueHas(members, uid),
                              !.qBefore = q, !.mBefore = members]
    /\ IF pure /\ popped = <<>>
       THEN /\ firstSeen' = IF uid \in Range(firstSeen) THEN firstSeen
                            ELSE Append(firstSeen, uid)
            /\ UNCHANGED <<popped, pure>>
       ELSE NotPure
    /\ UNCHANGED <<cvars, wvars, whist, bvars, bhist>>

QPrepend(uid, fast) ==
    /\ Alive
    /\ UNCHANGED <<evars, equiet, svars>>
    /\ LET r == QueuePrepend(q, members, uid, fast) IN
        /\ q' = r.q
        /\ members' = r.members
    /\ call' = [NoCall EXCEPT !.op = "Prepend", !.uid = uid, !.fast = fast,
                              !.had = QueueHas(members, uid),
                              !.qBefore = q, !.mBefore = members]
    /\ NotPure
    /\ UNCHANGED <<cvars, wvars, whist, bvars, bhist>>

QHas(uid) ==
    /\ Alive
    /\ UNCHANGED <<evars, equiet, svars>>
    /\ call' = [NoCall EXCEPT !.op = "Has", !.uid = uid,
                              !.had = QueueHas(members, uid),
                              !.found = QueueHas(members, uid),
                              !.qBefore = q, !.mBefore = members]
    /\ UNCHANGED <<qvars, firstSeen, popped, pure>>
    /\ UNCHANGED <<cvars, wvars, whist, bvars, bhist>>

QRemove(uid) ==
    /\ Alive
    /\ UNCHANGED <<evars, equiet, svars>>
    /\ LET r == QueueRemove(q, members, uid) IN
        /\ q' = r.q
        /\ members' = r.members
    /\ call' = [NoCall EXCEPT !.op = "Remove", !.uid = uid,
                              !.had = QueueHas(members, uid),
                              !.qBefore = q, !.mBefore = members]
    /\ NotPure
    /\ UNCHANGED <<cvars, wvars, whist, bvars, bhist>>

QPop ==
    /\ Alive
    /\ UNCHANGED <<evars, equiet, svars>>
    /\ LET r == QueuePop(q, members) IN
        /\ q' = r.q
        /\ members' = r.members
        /\ call' = [NoCall EXCEPT !.op = "Pop", !.found = r.found,
                                  !.item = r.item,
                                  !.qBefore = q, !.mBefore = members]
        /\ IF pure
           THEN /\ popped' = IF r.found THEN Append(popped, Deref(r.item).uid)
                             ELSE popped
                /\ UNCHANGED <<firstSeen, pure>>
           ELSE NotPure
    /\ UNCHANGED <<cvars, wvars, whist, bvars, bhist>>

InitQueue ==
    /\ QueueInit /\ NewCompactor /\ WorkerInit /\ BatchInit
    /\ EnqueueInit /\ TrackerInit

NextQueue ==
    \/ \E uid \in Uids, fast \in BOOLEAN : QAppend(uid, fast)
    \/ \E uid \in Uids, fast \in BOOLEAN : QPrepend(uid, fast)
    \/ \E uid \in Uids : QHas(uid)
    \/ \E uid \in Uids : QRemove(uid)
    \/ QPop

SpecQueue == InitQueue /\ [][NextQueue]_vars

\* ---------------------------------------------------------- status tracker
CompactorState(uid, did, status, stats) ==
    [latestUID |-> uid, latestDID |-> did, status |-> status, stats |-> stats]

\* Compactor.SetState: the four assignments through c.state, under stateLk.
\* With c.state the nil pointer the first assignment panics.
SetState(uid, did, status, stats, next) ==
    IF state = NilPtr
    THEN /\ crashAt' = "SetState"
         /\ pc' = "panic"
         /\ UNCHANGED <<state, stages>>
    ELSE /\ state' = Ptr(CompactorState(uid, did, status, stats))
         /\ stages' = Append(stages, status)
         /\ pc' = next
         /\ UNCHANGED crashAt

\* Compactor.GetState: a new CompactorState holding copies of the four fields
GetState(cur) ==
    Ptr(CompactorState(Deref(cur).latestUID, Deref(cur).latestDID,
                       Deref(cur).status, Deref(cur).stats))

\* ------------------------------------------------------------ worker loop
errNoReposToCompact == "no repos to compact"
errGetUser == "failed to get user"
errCompact == "failed to compact shards for user"

\* Run, lines 143-152: the select on c.exit with a default branch, then the
\* call of CompactNext.  A nil channel is never ready.
RunSelect ==
    /\ Alive
    /\ UNCHANGED <<evars, equiet, svars>>
    /\ pc = "select"
    /\ IF exit = "closed"
       THEN /\ pc' = "exited"
            /\ lastLog' = Ptr([level |-> "warn", msg |-> "compactor exiting"])
            /\ UNCHANGED <<item, user, st, ret, err, stages, collab, observed>>
       ELSE /\ pc' = "pop"
            /\ item' = NilPtr
            /\ user' = Nil
            /\ st' = Nil
            /\ ret' = NilPtr
            /\ err' = Nil
            /\ stages' = <<>>
            /\ collab' = <<>>
            /\ observed' = FALSE
            /\ lastLog' = NilPtr
    /\ UNCHANGED <<qvars, qhist, cvars, crashAt, signalled, bvars, bhist>>

\* CompactNext, lines 186-189
CompactNextPop ==
    /\ Alive
    /\ UNCHANGED <<evars, equiet, svars>>
    /\ pc = "pop"
    /\ LET r == QueuePop(q, members) IN
        /\ q' = r.q
        /\ members' = r.members
        /\ IF ~r.found \/ r.item = NilPtr
           THEN /\ ret' = NilPtr
                /\ err' = errNoReposToCompact
                /\ pc' = "returned"
                /\ UNCHANGED item
           ELSE /\ item' = r.item
                /\ pc' = "setGettingUser"
                /\ UNCHANGED <<ret, err>>
    /\ UNCHANGED <<qhist, cvars, user, st, whist, bvars, bhist>>

\* CompactNext, line 191
SetGettingUser ==
    /\ Alive
    /\ UNCHANGED <<evars, equiet, svars>>
    /\ pc = "setGettingUser"
    /\ SetState(Deref(item).uid, "unknown", "getting_user", Nil, "lookup")
    /\ UNCHANGED <<qvars, qhist, ctor, exit, item, user, st, ret, err,
                   collab, observed, lastLog, signalled, bvars, bhist>>

\* CompactNext, line 193: bgs.lookupUserByUID returns a user or an error
LookupUser ==
    /\ Alive
    /\ UNCHANGED <<evars, equiet, svars>>
    /\ pc = "lookup"
    /\ \/ \E did \in Dids :
            /\ user' = did
            /\ collab' = Append(collab, "lookupOk")
            /\ pc' = "setCompacting"
       \/ /\ user' = Nil
          /\ collab' = Append(collab, "lookupErr")
          /\ pc' = "setFailedGettingUser"
    /\ UNCHANGED <<qvars, qhist, cvars, item, st, ret, err,
                   stages, observed, lastLog, crashAt, signalled, bvars, bhist>>

\* CompactNext, lines 195-196: returns nil and the wrapped error
SetFailedGettingUser ==
    /\ Alive
    /\ UNCHANGED <<evars, equiet, svars>>
    /\ pc = "setFailedGettingUser"
    /\ SetState(Deref(item).uid, "unknown", "failed_getting_user", Nil, "returned")
    /\ IF state = NilPtr THEN UNCHANGED <<ret, err>>
       ELSE ret' = NilPtr /\ err' = errGetUser
    /\ UNCHANGED <<qvars, qhist, ctor, exit, item, user, st,
                   collab, observed, lastLog, signalled, bvars, bhist>>

\* CompactNext, line 199
SetCompacting ==
    /\ Alive
    /\ UNCHANGED <<evars, equiet, svars>>
    /\ pc = "setCompacting"
    /\ SetState(Deref(item).uid, user, "compacting", Nil, "compact")
    /\ UNCHANGED <<qvars, qhist, ctor, exit, item, user, st, ret, err,
                   collab, observed, lastLog, signalled, bvars, bhist>>

\* CompactNext, lines 201-207: CompactUserShards(ctx, item.uid, item.fast)
\* returns stats or an error; the duration is observed on success only
CompactUserShards ==
    /\ Alive
    /\ UNCHANGED <<evars, equiet, svars>>
    /\ pc = "compact"
    /\ \/ \E s \in StatsVals :
            /\ st' = s
            /\ collab' = Append(collab, "compactOk")
            /\ observed' = TRUE
            /\ pc' = "setDone"
       \/ /\ st' = Nil
          /\ collab' = Append(collab, "compactErr")
          /\ observed' = observed
          /\ pc' = "setFailedCompacting"
    /\ UNCHANGED <<qvars, qhist, cvars, item, user, ret, err,
                   stages, lastLog, crashAt, signalled, bvars, bhist>>

\* CompactNext, lines 204-205: returns nil and the wrapped error
\* the failure path, were it to put the failed item back in the queue
SetFailedCompactingRequeue ==
    /\ Alive
    /\ UNCHANGED <<evars, equiet, svars>>
    /\ pc = "setFailedCompacting"
    /\ SetState(Deref(item).uid, user, "failed_compacting", Nil, "returned")
    /\ IF state = NilPtr THEN UNCHANGED <<ret, err>>
       ELSE ret' = NilPtr /\ err' = errCompact
    /\ LET r == QueueAppend(q, members, Deref(item).uid, Deref(item).fast) IN
        /\ q' = r.q
        /\ members' = r.members
    /\ UNCHANGED <<qhist, ctor, exit, item, user, st,
                   collab, observed, lastLog, signalled, bvars, bhist>>

SetFailedCompacting ==
    /\ Alive
    /\ UNCHANGED <<evars, equiet, svars>>
    /\ pc = "setFailedCompacting"
    /\ SetState(Deref(item).uid, user, "failed_compacting", Nil, "returned")
    /\ IF state = NilPtr THEN UNCHANGED <<ret, err>>
       ELSE ret' = NilPtr /\ err' = errCompact
    /\ UNCHANGED <<qvars, qhist, ctor, exit, item, user, st,
                   collab, observed, lastLog, signalled, bvars, bhist>>

\* CompactNext, line 209
SetDone ==
    /\ Alive
    /\ UNCHANGED <<evars, equiet, svars>>
    /\ pc = "setDone"
    /\ SetState(Deref(item).uid, user, "done", st, "getState")
    /\ UNCHANGED <<qvars, qhist, ctor, exit, item, user, st, ret, err,
                   collab, observed, lastLog, signalled, bvars, bhist>>

\* CompactNext, line 211: return c.GetState(), nil
CompactNextReturn ==
    /\ Alive
    /\ UNCHANGED <<evars, equiet, svars>>
    /\ pc = "getState"
    /\ ret' = GetState(state)
    /\ err' = Nil
    /\ pc' = "returned"
    /\ UNCHANGED <<qvars, qhist, cvars, item, user, st, whist, bvars, bhist>>

\* the fields Run logs, read through the returned pointer
LogFields(level, msg, e, s) ==
    [level |-> level, msg |-> msg, err |-> e, uid |-> Deref(s).latestUID,
     repo |-> Deref(s).latestDID, status |-> Deref(s).status,
     stats |-> Deref(s).stats]

\* Run, lines 154-178: what Run does with (state, err) from CompactNext.
\* Reading state.latestUID through the nil pointer panics.
RunHandle ==
    /\ Alive
    /\ UNCHANGED <<evars, equiet, svars>>
    /\ pc = "returned"
    /\ IF err = errNoReposToCompact
       THEN /\ lastLog' = Ptr([level |-> "warn",
                               msg |-> "no repos to compact, waiting and retrying"])
            /\ pc' = "sleep5s"
            /\ UNCHANGED crashAt
       ELSE IF ret = NilPtr
       THEN /\ crashAt' = "RunLog"
            /\ pc' = "panic"
            /\ UNCHANGED lastLog
       ELSE IF err # Nil
       THEN /\ lastLog' = Ptr(LogFields("error", "failed to compact repo", err, ret))
            /\ pc' = "sleep100ms"
            /\ UNCHANGED crashAt
       ELSE /\ lastLog' = Ptr(LogFields("warn", "compacted repo", Nil, ret))
            /\ pc' = "select"
            /\ UNCHANGED crashAt
    /\ UNCHANGED <<qvars, qhist, cvars, item, user, st, ret, err,
                   stages, collab, observed, signalled, bvars, bhist>>

\* Run, lines 157-158 and 169: time.Sleep returns, the loop goes round
RunWake ==
    /\ Alive
    /\ UNCHANGED <<evars, equiet, svars>>
    /\ pc \in {"sleep5s", "sleep100ms"}
    /\ pc' = "select"
    /\ UNCHANGED <<qvars, qhist, cvars, item, user, st, ret, err,
                   whist, bvars, bhist>>

\* Compactor.EnqueueRepo, from any goroutine
EnqueueRepo(uid, fast) ==
    /\ Alive
    /\ equiet' = FALSE
    /\ UNCHANGED <<evars, svars>>
    /\ LET r == QueueAppend(q, members, uid, fast) IN
        /\ q' = r.q
        /\ members' = r.members
    /\ UNCHANGED <<qhist, cvars, wvars, whist, bvars, bhist>>

\* close(c.exit), once, from any goroutine: close of a nil channel panics
CloseExit ==
    /\ Alive
    /\ UNCHANGED <<evars, equiet, svars>>
    /\ ~signalled
    /\ signalled' = TRUE
    /\ IF exit = "nil"
       THEN crashAt' = "closeExit" /\ UNCHANGED exit
       ELSE exit' = "closed" /\ UNCHANGED crashAt
    /\ UNCHANGED <<qvars, qhist, ctor, state, wvars,
                   stages, collab, observed, lastLog, bvars, bhist>>

Init ==
    /\ QueueInit /\ (NewCompactor \/ LiteralCompactor) /\ WorkerInit /\ BatchInit
    /\ EnqueueInit /\ TrackerInit

Next ==
    \/ RunSelect
    \/ CompactNextPop
    \/ SetGettingUser
    \/ LookupUser
    \/ SetFailedGettingUser
    \/ SetCompacting
    \/ CompactUserShards
    \/ SetFailedCompacting
    \/ SetDone
    \/ CompactNextReturn
    \/ RunHandle
    \/ RunWake
    \/ \E uid \in Uids, fast \in BOOLEAN : EnqueueRepo(uid, fast)
    \/ CloseExit

Spec == Init /\ [][Next]_vars

\* ------------------------------------------------------------ batch driver
CompactionTarget(uid) == [Usr |-> uid]

\* what GetCompactionTargets may return: any list of targets, in any order
TargetLists ==
    UNION {[1..n -> {CompactionTarget(u) : u \in Uids}] : n \in 0..MaxTargets}

Lims == -1..MaxLim

\* lines 277-279: if lim > 0 && len(repos) > lim { repos = repos[:lim] }
Truncate(rs, lim) ==
    IF lim > 0 /\ Len(rs) > lim THEN SubSeq(rs, 1, lim) ELSE rs

compactionStats(targets, completed) ==
    [Targets |-> targets, Completed |-> completed]

\* results[uid] = s on a map held as a function from the keys present
MapPut(m, k, v) ==
    [x \in (DOMAIN m) \cup {k} |-> IF x = k THEN v ELSE m[x]]

errGetRepos == "failed to get repos to compact"

\* mutant of runRepoCompaction: the dry flag is not looked at
BatchStartIgnoreDry(lim, dry, fast) ==
    /\ Alive
    /\ UNCHANGED <<evars, equiet, svars>>
    /\ bpc = "idle"
    /\ \/ /\ bargs' = Ptr([lim |-> lim, dry |-> dry, fast |-> fast,
                           listed |-> FALSE, cands |-> <<>>])
          /\ bret' = [stats |-> NilPtr, err |-> errGetRepos]
          /\ bpc' = "done"
          /\ UNCHANGED <<repos, bi, results>>
       \/ \E cands \in TargetLists :
          /\ bargs' = Ptr([lim |-> lim, dry |-> dry, fast |-> fast,
                           listed |-> TRUE, cands |-> cands])
          /\ repos' = Truncate(cands, lim)
          /\ results' = <<>>
          /\ bi' = 0
          /\ bpc' = "check"
          /\ UNCHANGED bret
    /\ UNCHANGED <<qvars, qhist, cvars, wvars, whist, ctxDone, bhist>>

\* runRepoCompaction, lines 264-287: the listing, the truncation and the dry
\* run.  A nil map and an empty map read the same; both are the empty function.
BatchStart(lim, dry, fast) ==
    /\ Alive
    /\ UNCHANGED <<evars, equiet, svars>>
    /\ bpc = "idle"
    /\ \/ /\ bargs' = Ptr([lim |-> lim, dry |-> dry, fast |-> fast,
                           listed |-> FALSE, cands |-> <<>>])
          /\ bret' = [stats |-> NilPtr, err |-> errGetRepos]
          /\ bpc' = "done"
          /\ UNCHANGED <<repos, bi, results>>
       \/ \E cands \in TargetLists :
          /\ bargs' = Ptr([lim |-> lim, dry |-> dry, fast |-> fast,
                           listed |-> TRUE, cands |-> cands])
          /\ repos' = Truncate(cands, lim)
          /\ IF dry
             THEN /\ bret' = [stats |-> Ptr(compactionStats(repos', <<>>)),
                              err |-> Nil]
                  /\ bpc' = "done"
                  /\ UNCHANGED <<bi, results>>
             ELSE /\ results' = <<>>
                  /\ bi' = 0
                  /\ bpc' = "check"
                  /\ UNCHANGED bret
    /\ UNCHANGED <<qvars, qhist, cvars, wvars, whist, ctxDone, bhist>>

\* mutant of the loop head: ctx.Done() is never looked at
BatchCheckNoCancel ==
    /\ Alive
    /\ UNCHANGED <<evars, equiet, svars>>
    /\ bpc = "check"
    /\ IF bi >= Len(repos)
       THEN /\ bret' = [stats |-> Ptr(compactionStats(repos, results)),
                        err |-> Nil]
            /\ bpc' = "done"
            /\ UNCHANGED bcalls
       ELSE /\ bcalls' = Append(bcalls, repos[bi + 1].Usr)
            /\ bpc' = "compact"
            /\ UNCHANGED bret
    /\ UNCHANGED <<qvars, qhist, cvars, wvars, whist, bargs, repos, bi,
                   results, ctxDone, bok, bobserved, bcancelAt>>

\* lines 288-299 and 312-317: the end of the range loop, or the select on
\* ctx.Done() before candidate bi, then the call of CompactUserShards
BatchCheck ==
    /\ Alive
    /\ UNCHANGED <<evars, equiet, svars>>
    /\ bpc = "check"
    /\ IF bi >= Len(repos) \/ ctxDone
       THEN /\ bret' = [stats |-> Ptr(compactionStats(repos, results)),
                        err |-> Nil]
            /\ bpc' = "done"
            /\ UNCHANGED bcalls
       ELSE /\ bcalls' = Append(bcalls, repos[bi + 1].Usr)
            /\ bpc' = "compact"
            /\ UNCHANGED bret
    /\ UNCHANGED <<qvars, qhist, cvars, wvars, whist, bargs, repos, bi,
                   results, ctxDone, bok, bobserved, bcancelAt>>

\* mutant of the loop body: a failed candidate ends the whole batch
BatchCompactAbortOnError ==
    /\ Alive
    /\ UNCHANGED <<evars, equiet, svars>>
    /\ bpc = "compact"
    /\ \/ \E s \in StatsVals :
            /\ results' = MapPut(results, repos[bi + 1].Usr, s)
            /\ bok' = bok \cup {bi + 1}
            /\ bobserved' = bobserved + 1
            /\ bi' = bi + 1
            /\ bpc' = "check"
            /\ UNCHANGED bret
       \/ /\ bret' = [stats |-> Ptr(compactionStats(repos, results)),
                      err |-> Nil]
          /\ bpc' = "done"
          /\ UNCHANGED <<results, bok, bobserved, bi>>
    /\ UNCHANGED <<qvars, qhist, cvars, wvars, whist, bargs, repos,
                   ctxDone, bcalls, bcancelAt>>

\* lines 299-310: CompactUserShards returns stats or an error
\* the compaction of one target, were it to take the target off the worker's
\* queue and report it in the status tracker
BatchCompactThroughQueue ==
    /\ Alive
    /\ UNCHANGED <<evars, equiet, svars>>
    /\ bpc = "compact"
    /\ \/ \E s \in StatsVals :
            /\ results' = MapPut(results, repos[bi + 1].Usr, s)
            /\ bok' = bok \cup {bi + 1}
            /\ bobserved' = bobserved + 1
       \/ UNCHANGED <<results, bok, bobserved>>
    /\ bi' = bi + 1
    /\ bpc' = "check"
    /\ LET r == QueueRemove(q, members, repos[bi + 1].Usr) IN
        /\ q' = r.q
        /\ members' = r.members
    /\ UNCHANGED <<qhist, cvars, wvars, whist, bargs, repos,
                   ctxDone, bret, bcalls, bcancelAt>>

BatchCompact ==
    /\ Alive
    /\ UNCHANGED <<evars, equiet, svars>>
    /\ bpc = "compact"
    /\ \/ \E s \in StatsVals :
            /\ results' = MapPut(results, repos[bi + 1].Usr, s)
            /\ bok' = bok \cup {bi + 1}
            /\ bobserved' = bobserved + 1
       \/ UNCHANGED <<results, bok, bobserved>>
    /\ bi' = bi + 1
    /\ bpc' = "check"
    /\ UNCHANGED <<qvars, qhist, cvars, wvars, whist, bargs, repos,
                   ctxDone, bret, bcalls, bcancelAt>>

\* the caller cancels ctx; bcancelAt is the number of compaction calls
\* started by then
BatchCancel ==
    /\ Alive
    /\ UNCHANGED <<evars, equiet, svars>>
    /\ ~ctxDone
    /\ bpc # "done"
    /\ ctxDone' = TRUE
    /\ bcancelAt' = Len(bcalls)
    /\ UNCHANGED <<qvars, qhist, cvars, wvars, whist, bpc, bargs, repos, bi,
                   results, bret, bcalls, bok, bobserved>>

InitBatch ==
    /\ QueueInit /\ NewCompactor /\ WorkerInit /\ BatchInit
    /\ EnqueueInit /\ TrackerInit

NextBatch ==
    \/ \E lim \in Lims, dry \in BOOLEAN, fast \in BOOLEAN :
            BatchStart(lim, dry, fast)
    \/ BatchCheck
    \/ BatchCompact
    \/ BatchCancel

SpecBatch == InitBatch /\ [][NextBatch]_vars

\* ------------------------------------------------------- EnqueueAllRepos
\* EnqueueAllRepos lists the candidates, cuts the list to lim and appends the
\* candidates one q.Append at a time; each Append takes the queue's lock for
\* itself, so EnqueueRepo calls of other goroutines fall between them.

ShardCounts == {0, 7}

\* shardCount 0 stands for the default of 50
ClampShardCount(shardCount) == IF shardCount = 0 THEN 50 ELSE shardCount

\* the list after the cut to lim
ClampRepos(rs, lim) ==
    IF lim > 0 /\ Len(rs) > lim THEN SubSeq(rs, 1, lim) ELSE rs

\* the call up to the loop, without the cut to lim
EnqueueAllReposNoLimit(lim, shardCount, fast) ==
    /\ Alive
    /\ UNCHANGED svars
    /\ epc = "idle"
    /\ equiet' = (q = <<>>)
    /\ ecalls' = <<>>
    /\ ei' = 0
    /\ \E listed \in BOOLEAN, cands \in TargetLists :
        /\ listed \/ cands = <<>>
        /\ eargs' = Ptr([lim |-> lim, shardCount |-> ClampShardCount(shardCount),
                         fast |-> fast, listed |-> listed, cands |-> cands])
        /\ IF ~listed
           THEN /\ eerr' = errGetRepos
                /\ erepos' = <<>>
                /\ epc' = "done"
           ELSE /\ eerr' = Nil
                /\ erepos' = cands
                /\ epc' = IF cands = <<>> THEN "done" ELSE "append"
    /\ UNCHANGED <<qvars, qhist, cvars, wvars, whist, bvars, bhist>>

\* the call up to the loop: GetCompactionTargets either fails, and the call
\* returns the wrapped error, or returns a list, which is cut to lim
EnqueueAllRepos(lim, shardCount, fast) ==
    /\ Alive
    /\ UNCHANGED svars
    /\ epc = "idle"
    /\ equiet' = (q = <<>>)
    /\ ecalls' = <<>>
    /\ ei' = 0
    /\ \E listed \in BOOLEAN, cands \in TargetLists :
        /\ listed \/ cands = <<>>
        /\ eargs' = Ptr([lim |-> lim, shardCount |-> ClampShardCount(shardCount),
                         fast |-> fast, listed |-> listed, cands |-> cands])
        /\ IF ~listed
           THEN /\ eerr' = errGetRepos
                /\ erepos' = <<>>
                /\ epc' = "done"
           ELSE /\ eerr' = Nil
                /\ erepos' = ClampRepos(cands, lim)
                /\ epc' = IF ClampRepos(cands, lim) = <<>> THEN "done"
                                                            ELSE "append"
    /\ UNCHANGED <<qvars, qhist, cvars, wvars, whist, bvars, bhist>>

\* one iteration of the loop, c.q.Append(r.Usr, fast); after the last one
\* the call returns nil
EnqueueAllAppend ==
    /\ Alive
    /\ UNCHANGED svars
    /\ epc = "append"
    /\ LET r == erepos[ei + 1]
           a == QueueAppend(q, members, r.Usr, Deref(eargs).fast) IN
        /\ q' = a.q
        /\ members' = a.members
        /\ ecalls' = Append(ecalls, r.Usr)
    /\ ei' = ei + 1
    /\ epc' = IF ei + 1 = Len(erepos) THEN "done" ELSE "append"
    /\ UNCHANGED <<eargs, erepos, eerr, equiet>>
    /\ UNCHANGED <<qhist, cvars, wvars, whist, bvars, bhist>>

InitEnqueue ==
    /\ QueueInit /\ NewCompactor /\ WorkerInit /\ BatchInit
    /\ EnqueueInit /\ TrackerInit

NextEnqueue ==
    \/ \E lim \in Lims, shardCount \in ShardCounts, fast \in BOOLEAN :
            EnqueueAllRepos(lim, shardCount, fast)
    \/ EnqueueAllAppend
    \/ \E uid \in Uids : EnqueueRepo(uid, FALSE)

SpecEnqueue == InitEnqueue /\ [][NextEnqueue]_vars

\* ------------------------------------------------- the status tracker
\* SetState and GetState at the grain of their field accesses: SetState
\* holds c.stateLk for writing while it assigns the four fields one by one,
\* GetState holds it for reading while it reads them one by one into a new
\* CompactorState. The stats field is a pointer; the objects it points to
\* are in heap.

\* the arguments CompactNext passes to SetState
SetCalls ==
    {CompactorState(u, "unknown", s, Nil) :
        u \in Uids, s \in {"getting_user", "failed_getting_user"}}
    \cup {CompactorState(u, d, s, Nil) :
        u \in Uids, d \in Dids, s \in {"compacting", "failed_compacting"}}
    \cup {CompactorState(u, d, "done", x) :
        u \in Uids, d \in Dids, x \in StatsVals}

\* RWMutex.RLock returns while no writer holds the lock
RLockIgnoresWriter(lk) == TRUE
CanRLock(lk) == lk # "W"

\* RWMutex.Lock returns while nobody holds the lock
CanLock(lk) == lk = "free"

\* a status with what its stats pointer points to
Deep(s) ==
    [s EXCEPT !.stats = IF s.stats = Nil THEN Nil ELSE <<s.stats, heap[s.stats]>>]

\* what the tracker actions leave alone
trackerFrame == <<qvars, qhist, ctor, exit, wvars, stages, collab, observed,
                  lastLog, signalled, bvars, bhist, evars, equiet>>

\* a caller enters SetState and takes the lock. The copy an earlier GetState
\* handed out is followed up to here only: the reads after this call are
\* reads of another status.
SetStateLock(a) ==
    /\ Alive
    /\ wpc = "idle"
    /\ CanLock(stateLk)
    /\ stateLk' = "W"
    /\ wargs' = Ptr(a)
    /\ wpc' = "latestUID"
    /\ got' = NilPtr
    /\ snap' = NilPtr
    /\ readDeep' = NilPtr
    /\ UNCHANGED <<state, crashAt, rpc, rtmp, heap, committed>>
    /\ UNCHANGED trackerFrame

\* the next of the four assignments; the deferred Unlock follows the last.
\* c.state nil: the first assignment panics.
SetStateWrite ==
    /\ Alive
    /\ wpc \in {"latestUID", "latestDID", "status", "stats"}
    /\ IF state = NilPtr
       THEN /\ crashAt' = "SetState"
            /\ UNCHANGED <<state, wpc, wargs, stateLk, committed>>
       ELSE /\ state' = Ptr([Deref(state) EXCEPT ![wpc] = Deref(wargs)[wpc]])
            /\ UNCHANGED crashAt
            /\ IF wpc = "stats"
               THEN /\ wpc' = "idle"
                    /\ stateLk' = "free"
                    /\ committed' = Deref(wargs)
                    /\ wargs' = NilPtr
               ELSE /\ wpc' = CASE wpc = "latestUID" -> "latestDID"
                                 [] wpc = "latestDID" -> "status"
                                 [] wpc = "status" -> "stats"
                    /\ UNCHANGED <<stateLk, committed, wargs>>
    /\ UNCHANGED <<rpc, rtmp, snap, heap, got, readDeep>>
    /\ UNCHANGED trackerFrame

\* a caller enters GetState and takes the lock for reading
GetStateRLock ==
    /\ Alive
    /\ rpc = "idle"
    /\ CanRLock(stateLk)
    /\ stateLk' = "R"
    /\ rpc' = "latestUID"
    /\ rtmp' = Ptr(ZeroState)
    /\ got' = NilPtr
    /\ snap' = NilPtr
    /\ readDeep' = NilPtr
    /\ UNCHANGED <<state, crashAt, wpc, wargs, heap, committed>>
    /\ UNCHANGED trackerFrame

\* the next of the four reads; after the last, GetState unlocks and returns
\* the new CompactorState. c.state nil: the first read panics.
GetStateRead ==
    /\ Alive
    /\ rpc \in {"latestUID", "latestDID", "status", "stats"}
    /\ IF state = NilPtr
       THEN /\ crashAt' = "GetState"
            /\ UNCHANGED <<rpc, rtmp, stateLk, got, snap, readDeep>>
       ELSE LET r == [Deref(rtmp) EXCEPT ![rpc] = Deref(state)[rpc]] IN
            /\ UNCHANGED crashAt
            /\ IF rpc = "stats"
               THEN /\ rpc' = "idle"
                    /\ stateLk' = "free"
                    /\ rtmp' = NilPtr
                    /\ got' = Ptr(r)
                    /\ snap' = Ptr(r)
                    /\ readDeep' = Ptr(Deep(Deref(state)))
               ELSE /\ rpc' = CASE rpc = "latestUID" -> "latestDID"
                                 [] rpc = "latestDID" -> "status"
                                 [] rpc = "status" -> "stats"
                    /\ rtmp' = Ptr(r)
                    /\ UNCHANGED <<stateLk, got, snap, readDeep>>
    /\ UNCHANGED <<state, wpc, wargs, heap, committed>>
    /\ UNCHANGED trackerFrame

\* the caller assigns to the fields of the CompactorState it got
SnapshotAssign ==
    /\ Alive
    /\ snap # NilPtr
    /\ snap # Ptr(ZeroState)
    /\ snap' = Ptr(ZeroState)
    /\ UNCHANGED <<stateLk, wpc, wargs, rpc, rtmp, heap, got, readDeep,
                   committed, state, crashAt>>
    /\ UNCHANGED trackerFrame

\* the caller writes through the stats pointer of the CompactorState it got
SnapshotStatsWrite ==
    /\ Alive
    /\ snap # NilPtr
    /\ Deref(snap).stats # Nil
    /\ heap[Deref(snap).stats] = "fresh"
    /\ heap' = [heap EXCEPT ![Deref(snap).stats] = "written"]
    /\ UNCHANGED <<stateLk, wpc, wargs, rpc, rtmp, snap, got, readDeep,
                   committed, state, crashAt>>
    /\ UNCHANGED trackerFrame

InitState ==
    /\ QueueInit /\ (NewCompactor \/ LiteralCompactor) /\ WorkerInit
    /\ BatchInit /\ EnqueueInit /\ TrackerInit

NextState ==
    \/ \E a \in SetCalls : SetStateLock(a)
    \/ SetStateWrite
    \/ GetStateRLock
    \/ GetStateRead
    \/ SnapshotAssign
    \/ SnapshotStatsWrite

SpecState == InitState /\ [][NextState]_vars

\* ------------------------------------- the worker and the batch driver
\* runRepoCompaction runs in a goroutine of its own next to Run and to the
\* callers of EnqueueRepo. The batch has no limit and lists at most one
\* candidate here, and the enqueues are not fast ones: the queue and the
\* worker are as in Spec.

InitAll ==
    /\ QueueInit /\ (NewCompactor \/ LiteralCompactor) /\ WorkerInit
    /\ BatchInit /\ EnqueueInit /\ TrackerInit

NextAll ==
    \/ RunSelect
    \/ CompactNextPop
    \/ SetGettingUser
    \/ LookupUser
    \/ SetFailedGettingUser
    \/ SetCompacting
    \/ CompactUserShards
    \/ SetFailedCompacting
    \/ SetDone
    \/ CompactNextReturn
    \/ RunHandle
    \/ RunWake
    \/ \E uid \in Uids : EnqueueRepo(uid, FALSE)
    \/ \E dry \in BOOLEAN :
            /\ BatchStart(0, dry, FALSE)
            /\ Len(Deref(bargs').cands) <= 1
    \/ BatchCheck
    \/ BatchCompact
    \/ BatchCancel

SpecAll == InitAll /\ [][NextAll]_vars

\* ================================================================ claims

\* C1: after any sequence of Append, Prepend, Remove and Pop on the queue
\* made by NewCompactor, no two entries of q.q have the same uid, q.members
\* is exactly the set of uids in q.q, and len(q.q) = len(q.members).
C1_DedupInvariant ==
    /\ \A i, j \in 1..Len(q) : q[i].uid = q[j].uid => i = j
    /\ members = Range(UidsOf(q))
    /\ Len(q) = Cardinality(members)

\* C1 witness: a duplicate Append or Prepend was just rejected on a queue of
\* at least two entries that an earlier Pop or Remove has shortened.
C1_Witness ==
    /\ call.op \in {"Append", "Prepend"}
    /\ call.had
    /\ Len(q) >= 2
    /\ ~pure

\* C5: as long as only Appends and then only Pops have been called, the uids
\* popped so far followed by the uids still queued are the distinct uids in
\* the order of their first Append; once the queue is drained the Pops have
\* returned exactly that order.
C5_FifoAppendOnly ==
    pure => /\ popped \o UidsOf(q) = firstSeen
            /\ (q = <<>> => popped = firstSeen)

\* C5 witness: Append(1), Append(2), Append(3), then three Pops gave 1, 2, 3.
C5_Witness ==
    /\ pure
    /\ call.op = "Pop"
    /\ q = <<>>
    /\ popped = <<1, 2, 3>>

\* C6: an Append or Prepend of a uid that is already queued leaves q.q and
\* q.members exactly as they were: same entries, same order, same fast flags.
C6_DuplicateIsNoOp ==
    (call.op \in {"Append", "Prepend"} /\ call.had)
        => /\ q = call.qBefore
           /\ members = call.mBefore

\* C6 witness: Append(A, true) was called while A was queued with fast=false,
\* and A is still queued once, with fast=false.
C6_Witness ==
    /\ call.op = "Append"
    /\ call.had
    /\ call.fast
    /\ \E i \in 1..Len(q) : q[i] = queueItem(call.uid, FALSE)
    /\ Cardinality({i \in 1..Len(q) : q[i].uid = call.uid}) = 1

\* the stage sequences CompactNext may have written for one popped item
StagePaths ==
    {<<"getting_user">>,
     <<"getting_user", "failed_getting_user">>,
     <<"getting_user", "compacting">>,
     <<"getting_user", "compacting", "failed_compacting">>,
     <<"getting_user", "compacting", "done">>}

\* C2: on a Compactor built by NewCompactor, once CompactNext has popped an
\* item and gone past its first SetState, the stages written for that item
\* begin with getting_user and form a path of the stage machine; compacting
\* is written only after a successful lookup and done only after a
\* successful compaction.
C2_StageMachine ==
    (ctor = "NewCompactor" /\ item # NilPtr /\ pc # "setGettingUser")
        => /\ stages \in StagePaths
           /\ ("compacting" \in Range(stages) => "lookupOk" \in Range(collab))
           /\ ("done" \in Range(stages) => "compactOk" \in Range(collab))

\* C3: on a Compactor built by NewCompactor, nothing that happens to an item
\* crashes or ends Run: as long as the exit signal has not been given the
\* worker goroutine has neither panicked nor returned; and after CompactNext
\* has returned a lookup or compaction error and Run has handled it, Run has
\* logged the error with the account id and stage of the failed item and is
\* sleeping the 100 ms backoff.
C3_ErrorLoggedLoopContinues ==
    ctor = "NewCompactor" =>
        /\ ~signalled => pc \notin {"panic", "exited"}
        /\ (err \in {errGetUser, errCompact}
               /\ pc \notin {"returned", "select", "exited"})
            => /\ pc = "sleep100ms"
               /\ lastLog # NilPtr
               /\ Deref(lastLog).level = "error"
               /\ Deref(lastLog).uid = Deref(item).uid
               /\ Deref(lastLog).status \in {"failed_getting_user",
                                             "failed_compacting"}

\* C4: on a Compactor built by NewCompactor, signalling the exit channel
\* cannot fail: after close(c.exit) the channel is closed and the process
\* has not panicked.
C4_StopSignal ==
    (ctor = "NewCompactor" /\ signalled)
        => /\ exit = "closed"
           /\ crashAt = "none"

\* C7: on a Compactor built by NewCompactor, a CompactNext that has popped
\* an item comes back to its caller, it does not die inside SetState; when
\* it returns a lookup error the tracker holds the popped uid with stage
\* failed_getting_user; when it returns a compaction error the tracker holds
\* the uid and the resolved did with stage failed_compacting; in both cases
\* the stats are nil, no duration was observed, and the state returned to
\* the caller carries the uid.
C7_FailureOutcome ==
    ctor = "NewCompactor" =>
        /\ item # NilPtr => crashAt # "SetState"
        /\ (pc = "returned" /\ err \in {errGetUser, errCompact})
            => /\ Deref(state).latestUID = Deref(item).uid
               /\ (err = errGetUser =>
                      Deref(state).status = "failed_getting_user")
               /\ (err = errCompact =>
                      /\ Deref(state).status = "failed_compacting"
                      /\ Deref(state).latestDID = user)
               /\ Deref(state).stats = Nil
               /\ ~observed
               /\ ret # NilPtr
               /\ Deref(ret).latestUID = Deref(item).uid

\* C8: CompactNext on an empty queue returns errNoReposToCompact with the
\* queue still empty, the status snapshot untouched and no collaborator
\* called; Run then sleeps the 5 s backoff, and after it goes round the loop.
C8_EmptyQueue ==
    [][/\ (pc = "pop" /\ q = <<>> /\ pc' # pc)
            => /\ pc' = "returned"
               /\ err' = errNoReposToCompact
               /\ ret' = NilPtr
               /\ q' = <<>>
               /\ members' = members
               /\ state' = state
               /\ stages' = <<>>
               /\ collab' = <<>>
       /\ (pc = "returned" /\ err = errNoReposToCompact /\ pc' # pc)
            => /\ pc' = "sleep5s"
               /\ state' = state
               /\ q' = q
               /\ collab' = <<>>
       /\ (pc = "sleep5s" /\ pc' # pc) => pc' = "select"]_vars

\* C8 witness: Run is in the 5 s backoff after CompactNext found the queue
\* empty, and no collaborator was called.
C8_Witness ==
    /\ pc = "sleep5s"
    /\ err = errNoReposToCompact
    /\ q = <<>>
    /\ collab = <<>>
    /\ crashAt = "none"

\* a non-dry run whose listing succeeded has returned
BatchReturned ==
    /\ bpc = "done"
    /\ Deref(bargs).listed
    /\ ~Deref(bargs).dry

\* the uids whose compaction call succeeded
SucceededUids == {repos[i].Usr : i \in bok}

\* C9: when a non-dry run that observed no cancellation has returned, it
\* returned no error, CompactUserShards was called once for every candidate
\* in list order, targets is the truncated candidate list, and completed has
\* an entry for exactly the candidates whose call succeeded.
C9_PartialFailureIsolation ==
    (BatchReturned /\ (~ctxDone \/ bcancelAt >= Len(repos)))
        => /\ bret.err = Nil
           /\ bret.stats # NilPtr
           /\ bcalls = [i \in 1..Len(repos) |-> repos[i].Usr]
           /\ Deref(bret.stats).Targets
                = Truncate(Deref(bargs).cands, Deref(bargs).lim)
           /\ DOMAIN Deref(bret.stats).Completed = SucceededUids

\* C9 witness: of three distinct candidates the second failed and the first
\* and third succeeded, and the run has returned.
C9_Witness ==
    /\ BatchReturned
    /\ ~ctxDone
    /\ Len(repos) = 3
    /\ Cardinality({repos[i].Usr : i \in 1..3}) = 3
    /\ bok = {1, 3}
    /\ DOMAIN Deref(bret.stats).Completed = {repos[1].Usr, repos[3].Usr}

\* C10: once ctx is cancelled no further compaction call is started; a run
\* cancelled before its last candidate returns no error, with targets the
\* whole truncated candidate list and completed exactly the results of the
\* calls that had been started by the time of the cancellation.
C10_CancelMidBatch ==
    /\ ctxDone => Len(bcalls) = bcancelAt
    /\ (BatchReturned /\ ctxDone /\ bcancelAt < Len(repos))
        => /\ bret.err = Nil
           /\ bret.stats # NilPtr
           /\ Deref(bret.stats).Targets
                = Truncate(Deref(bargs).cands, Deref(bargs).lim)
           /\ Deref(bret.stats).Completed = results
           /\ DOMAIN results = SucceededUids
           /\ bok \subseteq 1..bcancelAt
           /\ bcalls = [i \in 1..bcancelAt |-> repos[i].Usr]

\* C10 witness: cancelled after candidate 1 of 3 succeeded; the run returned
\* all 3 targets and candidate 1's result only.
C10_Witness ==
    /\ BatchReturned
    /\ ctxDone
    /\ bcancelAt = 1
    /\ Len(Deref(bret.stats).Targets) = 3
    /\ bok = {1}
    /\ DOMAIN Deref(bret.stats).Completed = {repos[1].Usr}
    /\ bcalls = <<repos[1].Usr>>

\* C11: a dry run whose listing succeeded returns no error, targets equal to
\* the truncated candidate list and an empty completed, and CompactUserShards
\* was never called nor a duration observed, cancelled or not.
C11_DryRun ==
    (bpc = "done" /\ Deref(bargs).listed /\ Deref(bargs).dry)
        => /\ bret.err = Nil
           /\ bret.stats # NilPtr
           /\ Deref(bret.stats).Targets
                = Truncate(Deref(bargs).cands, Deref(bargs).lim)
           /\ DOMAIN Deref(bret.stats).Completed = {}
           /\ bcalls = <<>>
           /\ bok = {}
           /\ bobserved = 0

\* C11 witness: a dry run over MaxTargets candidates, untruncated, has returned
\* all of them.
C11_Witness ==
    /\ bpc = "done"
    /\ Deref(bargs).listed
    /\ Deref(bargs).dry
    /\ Len(Deref(bargs).cands) = MaxTargets
    /\ Len(Deref(bret.stats).Targets) = MaxTargets
    /\ bcalls = <<>>

\* C13: after a Prepend of a uid that was not queued, the queue is the new
\* entry followed by the old queue unchanged, the uid is a member, and the
\* next Pop returns the new entry.
C13_PrependOvertakes ==
    (call.op = "Prepend" /\ ~call.had)
        => /\ q = <<queueItem(call.uid, call.fast)>> \o call.qBefore
           /\ members = call.mBefore \cup {call.uid}
           /\ QueuePop(q, members).found
           /\ QueuePop(q, members).item = Ptr(queueItem(call.uid, call.fast))
           /\ QueuePop(q, members).q = call.qBefore

\* C13 witness: Prepend(3) on the queue 1, 2 gave the queue 3, 1, 2.
C13_Witness ==
    /\ call.op = "Prepend"
    /\ ~call.had
    /\ UidsOf(call.qBefore) = <<1, 2>>
    /\ UidsOf(q) = <<3, 1, 2>>

\* the entries of qq whose uid is not uid, in order
WithoutUid(qq, uid) ==
    LET Keep(e) == e.uid # uid IN SelectSeq(qq, Keep)

\* C14: Remove of a uid that is not queued leaves q.q and q.members as they
\* were; Remove of a queued uid leaves the other entries, in order and with
\* their flags, drops exactly one entry, and clears the membership.
C14_Remove ==
    call.op = "Remove"
        => IF call.had
           THEN /\ q = WithoutUid(call.qBefore, call.uid)
                /\ Len(q) = Len(call.qBefore) - 1
                /\ members = call.mBefore \ {call.uid}
                /\ call.uid \notin Range(UidsOf(q))
           ELSE /\ q = call.qBefore
                /\ members = call.mBefore

\* C14 witness: Remove took the middle entry out of a queue of three.
C14_Witness ==
    /\ call.op = "Remove"
    /\ call.had
    /\ Len(call.qBefore) = 3
    /\ call.qBefore[2].uid = call.uid
    /\ q = <<call.qBefore[1], call.qBefore[3]>>

\* C14 second witness state: Remove on the empty queue
C14_WitnessAbsent ==
    /\ call.op = "Remove"
    /\ ~call.had
    /\ call.qBefore = <<>>


\* the uids of a list of compaction targets
UsrsOf(rs) == [i \in 1..Len(rs) |-> rs[i].Usr]

\* a sequence without the later occurrences of its elements
RECURSIVE FirstOccurrences(_)
FirstOccurrences(us) ==
    IF us = <<>> THEN <<>>
    ELSE LET front == FirstOccurrences(SubSeq(us, 1, Len(us) - 1))
             last == us[Len(us)] IN
         IF last \in Range(front) THEN front ELSE Append(front, last)

\* C12: when EnqueueAllRepos has returned after a listing that succeeded, it
\* returned nil and made one Append call per candidate of the list, in the
\* list's order: for the first lim candidates only when lim > 0 and the list
\* is longer than lim, for all of them otherwise. Every candidate it called
\* Append for is queued, and when the queue was empty at the call and nobody
\* else enqueued meanwhile, the queue holds exactly those candidates, once
\* each, in the order of their first occurrence, with the call's fast flag.
C12_EnqueueAllLimit ==
    (epc = "done" /\ Deref(eargs).listed)
        => LET a == Deref(eargs)
               n == IF a.lim > 0 /\ Len(a.cands) > a.lim THEN a.lim
                                                          ELSE Len(a.cands) IN
           /\ eerr = Nil
           /\ ecalls = UsrsOf(SubSeq(a.cands, 1, n))
           /\ Range(ecalls) \subseteq members
           /\ Range(ecalls) \subseteq Range(UidsOf(q))
           /\ equiet => /\ UidsOf(q) = FirstOccurrences(ecalls)
                        /\ \A i \in 1..Len(q) : q[i].fast = a.fast

\* a list of three distinct candidates cut to two: the queue holds the first
\* two in order
C12_Witness ==
    /\ epc = "done" /\ eargs # NilPtr /\ Deref(eargs).listed /\ equiet
    /\ Deref(eargs).lim = 2
    /\ UsrsOf(Deref(eargs).cands) = <<3, 1, 2>>
    /\ UidsOf(q) = <<3, 1>>
    /\ ecalls = <<3, 1>>


\* C15: whatever the interleaving of the field reads of GetState with the
\* field writes of SetState, the CompactorState that GetState returned is,
\* field for field, the arguments of the last SetState call that completed
\* (the zero status before the first): never a mixture of two calls.
C15_NoTornReads ==
    got # NilPtr => Deref(got) = committed

\* GetState returned the status of a SetState call that overwrote another
\* call's status which differed from it in every field
C15_Witness ==
    /\ got # NilPtr
    /\ Deref(got) = CompactorState(2, "did:b", "done", "st1")
    /\ Deref(got) = committed
    /\ rpc = "idle" /\ wpc = "idle"

\* C16: on a Compactor built by NewCompactor, GetState returns a copy, it
\* does not panic; and as long as no SetState has begun since GetState
\* returned, the tracker's status, with what its stats pointer points to, is
\* what it was when GetState returned, whatever the caller did to the value
\* it got: a second GetState returns the same snapshot.
C16_SnapshotIsolation ==
    ctor = "NewCompactor" =>
        /\ crashAt # "GetState"
        /\ got # NilPtr => Deep(Deref(state)) = Deref(readDeep)


\* C17: a step of the worker (Run and the CompactNext it calls) leaves the
\* queue and the membership set as they are, except the Pop of CompactNext,
\* which removes exactly the head; a step that makes the queue longer is
\* never a step of the worker, and it adds one item at the tail.
C17_NoReEnqueue ==
    [][ /\ pc' # pc =>
            \/ q' = q /\ members' = members
            \/ /\ pc = "pop" /\ q # <<>>
               /\ q' = Tail(q)
               /\ members' = members \ {Head(q).uid}
               /\ item' = Ptr(Head(q))
        /\ Len(q') > Len(q) =>
            /\ pc' = pc
            /\ \E uid \in Uids, fast \in BOOLEAN :
                    q' = Append(q, queueItem(uid, fast))
      ]_vars

\* CompactNext has returned a failure for an item while other items wait:
\* the failed item is neither in the queue nor in the membership set
C17_Witness ==
    /\ pc = "returned"
    /\ err \in {errGetUser, errCompact}
    /\ item # NilPtr
    /\ q # <<>>
    /\ Deref(item).uid \notin members
    /\ Deref(item).uid \notin Range(UidsOf(q))


\* C18: a step of runRepoCompaction, dry or not, cancelled or not, leaves the
\* queue, the membership set, the status and the worker where they are, and
\* with the batch running next to it the Pop of the worker still takes the
\* head of the queue.
C18_BatchIndependent ==
    [][ /\ (bpc' # bpc \/ bi' # bi \/ ctxDone' # ctxDone)
            => UNCHANGED <<q, members, state, wvars>>
        /\ (pc = "pop" /\ pc' # pc /\ q # <<>>)
            => item' = Ptr(Head(q)) /\ q' = Tail(q)
      ]_vars

\* the batch is about to compact an account that waits in the queue while
\* the worker is busy with another one
C18_Witness ==
    /\ bpc = "compact"
    /\ ~Deref(bargs).dry
    /\ pc = "compact"
    /\ q # <<>>
    /\ repos[bi + 1].Usr = Head(q).uid
    /\ state # NilPtr
    /\ Deref(state).status = "compacting"


\* C19: while Run has not been signalled to exit, an account that waits in
\* the queue still has a worker to pop it: the process has not died with
\* items left in the queue. (Every collaborator call of the model returns.)
C19_WorkerProgress ==
    (q # <<>> /\ ~signalled) => Alive


\* where CompactNext is between its Pop and the SetState of a terminal stage
ProcessingPcs == {"setGettingUser", "lookup", "setFailedGettingUser",
                  "setCompacting", "compact", "setFailedCompacting", "setDone"}

\* C20: while the worker is processing the account it popped and that account
\* is not queued again, the account is not in the membership set, so an
\* EnqueueRepo for it arriving now puts it at the tail of the queue, with
\* either fast flag; and the worker has one collaborator call outstanding at
\* most: the lookup with no call made yet for the item, the compaction with
\* the lookup returned.
C20_DedupPendingOnly ==
    (pc \in ProcessingPcs /\ item # NilPtr)
        => LET A == Deref(item).uid IN
           /\ A \notin Range(UidsOf(q)) =>
                /\ A \notin members
                /\ \A fast \in BOOLEAN :
                    LET r == QueueAppend(q, members, A, fast) IN
                    /\ r.q = Append(q, queueItem(A, fast))
                    /\ r.members = members \cup {A}
           /\ pc = "lookup" => collab = <<>>
           /\ pc = "compact" => collab = <<"lookupOk">>

\* the account the worker is compacting was enqueued again meanwhile and
\* waits in the queue behind another one
C20_Witness ==
    /\ pc = "compact"
    /\ item # NilPtr
    /\ Len(q) = 2
    /\ q[2].uid = Deref(item).uid
    /\ Deref(item).uid \in members

=============================================================================
